---------------------------- MODULE Spec2Model ----------------------------
(***************************************************************************)
(* Model of the two dataset builders of eth-fraud-dataset-pipeline:        *)
(*   - GNN/build_unified_dataset.py  (edge pipeline: labels, edges_all,    *)
(*     window index, enrichment + window targets, per-window export),      *)
(*   - LSTM/build_unified_dataset.py (feature rollup daily->weekly->month).*)
(* Files are modelled by their logical content (rows), a parquet table as  *)
(* a record [exists, rows].  Pass-through columns that no stage reads      *)
(* (value_wei, tx_fee_wei, block_number, contract_creation, tx_hash,       *)
(* is_scam, is_contract) are left out of the rows.                         *)
(***************************************************************************)
EXTENDS Integers, Sequences, FiniteSets, TLC

\* ------------------------------------------------------------------ bounds
FirstDay == 30        \* first calendar day of the input pool (days since epoch)
NumDays == 3          \* number of consecutive days in the input pool
MaxEdges == 2         \* rows of the raw transaction input
MaxStageRuns == 2     \* how often one stage is invoked in succession
MaxCrashes == 1       \* how often the process is killed and started again
MaxDailyRows == 2     \* rows of the daily feature input

\* ------------------------------------------------------------- calendar
\* Proleptic Gregorian date of a day number (days since 1970-01-01).
CivilFromDays(z0) ==
    LET z   == z0 + 719468
        era == z \div 146097
        doe == z - era * 146097
        yoe == (doe - doe \div 1460 + doe \div 36524 - doe \div 146096) \div 365
        doy == doe - (365 * yoe + yoe \div 4 - yoe \div 100)
        mp  == (5 * doy + 2) \div 153
        d   == doy - (153 * mp + 2) \div 5 + 1
        m   == IF mp < 10 THEN mp + 3 ELSE mp - 9
        y   == yoe + era * 400 + (IF m <= 2 THEN 1 ELSE 0)
    IN  [y |-> y, m |-> m, d |-> d]

\* Day number of a proleptic Gregorian date.
DaysFromCivil(y0, m, d) ==
    LET y   == IF m <= 2 THEN y0 - 1 ELSE y0
        era == y \div 400
        yoe == y - era * 400
        doy == (153 * (IF m > 2 THEN m - 3 ELSE m + 9) + 2) \div 5 + d - 1
        doe == yoe * 365 + yoe \div 4 - yoe \div 100 + doy
    IN  era * 146097 + doe - 719468

\* ISO weekday of a day number, Monday = 1 .. Sunday = 7.
IsoWeekday(day) == ((day + 3) % 7) + 1

\* strftime("%Y-%m") of a day: the label <<year, month>>.
StrftimeMonth(day) == LET c == CivilFromDays(day) IN <<c.y, c.m>>

\* strftime("%G-W%V") of a day: the label <<ISO year, ISO week>>; the ISO year
\* is the year of the Thursday of the day's Monday-based week.
StrftimeWeek(day) ==
    LET th == day - IsoWeekday(day) + 4
        g  == CivilFromDays(th).y
    IN  <<g, (th - DaysFromCivil(g, 1, 1)) \div 7 + 1>>

\* pl.from_epoch("ts", "s") followed by dt.strftime: the label of a timestamp.
MonthOfTs(ts) == StrftimeMonth(ts \div 86400)
WeekOfTs(ts) == StrftimeWeek(ts \div 86400)
LabelOfTs(fq, ts) == IF fq = "month" THEN MonthOfTs(ts) ELSE WeekOfTs(ts)

\* Order of window labels (the order of the zero-padded label strings).
LabelLess(a, b) == a[1] < b[1] \/ (a[1] = b[1] /\ a[2] < b[2])

\* ------------------------------------------------------------- identity
\* str.to_lowercase() on the addresses of the input pools.
ToLower(a) ==
    CASE a = "A" -> "a" [] a = "B" -> "b" [] a = "C" -> "c" [] OTHER -> a

\* Column.hash(**HASH_SEEDS).cast(UInt64): a fixed function of the string under
\* the fixed seed tuple; the values stand for the 64-bit hashes.
Hash64(s) ==
    CASE s = "a" -> 7301 [] s = "b" -> 1942 [] s = "c" -> 5518
      [] s = "A" -> 8866 [] s = "B" -> 3027 [] s = "C" -> 6409

\* Faulty variant of NodeId: the address is hashed as written.
NodeId_CaseSensitive(a) == Hash64(a)

\* The id a stage assigns to an address: hash of the lower-cased string.
NodeId(a) == Hash64(ToLower(a))

\* ---------------------------------------------------------- input pools
Days == FirstDay .. (FirstDay + NumDays - 1)
\* one timestamp per day: the last second of the first day, midnight of the others
TsPool == {FirstDay * 86400 + 86399} \cup {d * 86400 : d \in Days \ {FirstDay}}
\* (from_address, to_address) of the raw rows; the last one is a self transfer
AddrPairs == {<<"A", "B">>, <<"b", "c">>, <<"b", "B">>}
RawPool == {[from_address |-> p[1], to_address |-> p[2], ts |-> t] : p \in AddrPairs, t \in TsPool}
LabelPool == {"B", "b", "c"}

\* ------------------------------------------------------------- helpers
RECURSIVE SortLabels(_)
SortLabels(S) ==
    IF S = {} THEN <<>>
    ELSE LET m == CHOOSE x \in S : \A y \in S : x = y \/ LabelLess(x, y)
         IN  <<m>> \o SortLabels(S \ {m})

RECURSIVE SortInts(_)
SortInts(S) ==
    IF S = {} THEN <<>>
    ELSE LET m == CHOOSE x \in S : \A y \in S : x <= y
         IN  <<m>> \o SortInts(S \ {m})

RECURSIVE Flatten(_)
Flatten(ss) == IF ss = <<>> THEN <<>> ELSE Head(ss) \o Flatten(Tail(ss))

Range(s) == {s[k] : k \in DOMAIN s}
Count(s, x) == Cardinality({k \in DOMAIN s : s[k] = x})
SameBag(s, t) == Len(s) = Len(t) /\ \A x \in Range(s) \cup Range(t) : Count(s, x) = Count(t, x)

NoFile == [exists |-> FALSE, rows |-> {}]
NoSeqFile == [exists |-> FALSE, rows |-> <<>>]
NoMeta == [exists |-> FALSE, cols |-> <<>>, rows |-> <<>>]


\* ------------------------------------------------------------------ state
VARIABLES
    \* edge pipeline: inputs
    labelsCsv,        \* LABELS_CSV: [exists, rows (set of addresses)]
    rawTx,            \* SRC_TX_DIR/*.parquet: set of raw rows; {} = no input file
    \* edge pipeline: files under DS_ROOT
    dirs,             \* the output directories exist
    f_labels,         \* labels/targets_global.parquet: rows [node_id, address]
    f_map,            \* mapping/address_id_map_labels.parquet: rows [address, node_id]
    f_edges,          \* edges_all/edges.parquet: rows [src_id, dst_id, ts]
    f_meta,           \* meta/<freq>_window_meta.parquet, by freq: [exists, cols, rows]
    f_targets,        \* targets/<freq>_targets.parquet, by freq: [exists, rows (seq)]
    f_parts,          \* edges_by_<freq>/<freq>=<win>/edges.parquet: set of [freq, win, rows]
    \* edge pipeline: process
    pc,               \* position of the process
    freq,             \* granularity being processed ("month" | "week")
    i,                \* loop index over the window rows (enumerate / zip)
    labels,           \* build_labels_and_mapping: the deduplicated labels frame
    tg_ids,           \* enrich_meta_and_build_targets: ids of targets_global
    meta,             \* process_freq / export_windows: the sorted window rows read
    order,            \* the order in which the loop visits the rows of meta
    nodes_cnt_list,   \* process_freq: (win_id, nodes count) per processed window
    targets_chunks,   \* process_freq: unflushed per-window target frames
    \* bookkeeping of the run
    wlog,             \* file writes done: set of [file, stage, existed]
    enrichRuns,       \* invocations of enrich_meta_and_build_targets
    exportRuns,       \* invocations of export_windows
    crashes,          \* times the process was killed
    onceEnrich,       \* outputs at the end of the first enrichment
    onceExport        \* partition files at the end of the first export

inputVars == <<labelsCsv, rawTx>>
fileVars == <<dirs, f_labels, f_map, f_edges, f_meta, f_targets, f_parts>>
procVars == <<pc, freq, i, labels, tg_ids, meta, order, nodes_cnt_list, targets_chunks>>
bookVars == <<wlog, enrichRuns, exportRuns, crashes, onceEnrich, onceExport>>
gnnVars == <<inputVars, fileVars, procVars, bookVars>>

VARIABLES
    \* rollup: inputs
    upLabels,         \* LABELS_FP exists
    upMap,            \* MAP_FP: [exists, rows [address, node_id]]
    upWeekMeta,       \* WEEK_META: [exists, cols, rows]
    upMonthMeta,      \* MONTH_META: [exists, cols, rows]
    dailySrc,         \* SRC_LSTM_DAILY/*.parquet: set of daily rows; {} = no file
    castMode,         \* what the str -> Decimal cast does with digits beyond the scale
    \* rollup: files under OUT_DIR
    l_dirs,           \* OUT_DIR, _tmp_week_parts, _tmp_month_parts exist
    f_daily,          \* daily_filtered.parquet
    weekParts,        \* _tmp_week_parts/week=<w>.parquet: set of [win, rows]
    f_weekly,         \* weekly.parquet
    monthParts,       \* _tmp_month_parts/month=<m>.parquet: set of [win, rows]
    f_monthly,        \* monthly.parquet
    \* rollup: process
    l_pc, addr_map, weeks_list, months_list, week_month_map, li

lstmInputs == <<upLabels, upMap, upWeekMeta, upMonthMeta, dailySrc, castMode>>
lstmFiles == <<l_dirs, f_daily, weekParts, f_weekly, monthParts, f_monthly>>
lstmProc == <<l_pc, addr_map, weeks_list, months_list, week_month_map, li>>
lstmVars == <<lstmInputs, lstmFiles, lstmProc>>

VARIABLES
    \* merge_parquet_gz: inputs
    files,             \* sorted(IN_DIR.glob(PATTERN)): sequence of [kind, schema, groups]
    MAX_ROWS_PER_FILE, \* the setting: 0 = one output file, else rows per output part
    \* merge_parquet_gz: output
    out_parts,         \* OUT_DIR/<OUT_BASE>_part-<idx>.parquet: rows written, by idx + 1
    \* merge_parquet_gz: process
    m_pc,              \* position of main
    m_error,           \* the exception that ended main ("" = none)
    schema,            \* schema of the first file
    fpos,              \* position of p in files (for p in files)
    rg,                \* row group of the file being read
    idx, rows_in_file, total_rows,
    skipped            \* positions of the files skipped with a warning

mergeInputs == <<files, MAX_ROWS_PER_FILE>>
mergeProc == <<m_pc, m_error, schema, fpos, rg, idx, rows_in_file, total_rows, skipped>>
mergeVars == <<mergeInputs, out_parts, mergeProc>>

\* A write of one file by one stage; existed: the file was there before.
Logged(file, stage, existed) ==
    wlog \cup {[file |-> file, stage |-> stage, existed |-> existed]}

\* Name of an output file: <<table, granularity, window label>>.
NoWin == <<0, 0>>
\* Faulty variant of FileId: every path resolves to a window-index file.
FileId_MetaPath(table, fq, win) == <<"window_meta", fq, win>>

FileId(table, fq, win) == <<table, fq, win>>

\* ------------------------------------------------- 1) labels & mapping
\* lab.select(...).with_columns(hash(address_lc)): one row per CSV row.
LabelRows(csv) == {[node_id |-> NodeId(a), address |-> a] : a \in csv}

\* .unique(subset=["node_id"]): any one row of each node_id is kept.
UniqueByNodeId(rows) ==
    {R \in SUBSET rows :
        /\ \A r \in rows : \E k \in R : k.node_id = r.node_id
        /\ \A a, b \in R : a.node_id = b.node_id => a = b}

\* build_labels_and_mapping up to the write of targets_global.parquet.
BuildLabelsWriteTargets ==
    /\ pc = "labels"
    /\ IF ~labelsCsv.exists
       THEN /\ pc' = "failed"
            /\ UNCHANGED <<f_labels, labels, wlog>>
       ELSE \E R \in UniqueByNodeId(LabelRows(labelsCsv.rows)) :
            /\ labels' = R
            /\ f_labels' = [exists |-> TRUE, rows |-> R]
            /\ wlog' = Logged(FileId("targets_global", "", NoWin), "build_labels_and_mapping", f_labels.exists)
            /\ pc' = "labels_map"
    /\ UNCHANGED <<inputVars, dirs, f_map, f_edges, f_meta, f_targets, f_parts,
                   freq, i, tg_ids, meta, order, nodes_cnt_list, targets_chunks,
                   enrichRuns, exportRuns, crashes, onceEnrich, onceExport>>
    /\ UNCHANGED <<lstmVars, mergeVars>>

\* build_labels_and_mapping: the write of address_id_map_labels.parquet.
BuildLabelsWriteMap ==
    /\ pc = "labels_map"
    /\ f_map' = [exists |-> TRUE, rows |-> labels]
    /\ wlog' = Logged(FileId("address_id_map_labels", "", NoWin), "build_labels_and_mapping", f_map.exists)
    /\ pc' = "edges_all"
    /\ UNCHANGED <<inputVars, dirs, f_labels, f_edges, f_meta, f_targets, f_parts,
                   freq, i, labels, tg_ids, meta, order, nodes_cnt_list, targets_chunks,
                   enrichRuns, exportRuns, crashes, onceEnrich, onceExport>>
    /\ UNCHANGED <<lstmVars, mergeVars>>

\* ------------------------------------------------------- 2) edges_all
\* The canonical edge of a raw row: hashed lower-cased endpoints, epoch seconds.
EdgeOf(r) == [src_id |-> NodeId(r.from_address), dst_id |-> NodeId(r.to_address), ts |-> r.ts]

build_edges_all ==
    /\ pc = "edges_all"
    /\ IF rawTx = {}
       THEN /\ pc' = "failed"
            /\ UNCHANGED <<f_edges, wlog>>
       ELSE /\ f_edges' = [exists |-> TRUE, rows |-> {EdgeOf(r) : r \in rawTx}]
            /\ wlog' = Logged(FileId("edges_all", "", NoWin), "build_edges_all", f_edges.exists)
            /\ pc' = "index_month"
    /\ UNCHANGED <<inputVars, dirs, f_labels, f_map, f_meta, f_targets, f_parts,
                   freq, i, labels, tg_ids, meta, order, nodes_cnt_list, targets_chunks,
                   enrichRuns, exportRuns, crashes, onceEnrich, onceExport>>
    /\ UNCHANGED <<lstmVars, mergeVars>>

\* ---------------------------------------------------- 3) window index
GroupMin(fq, edges, w) ==
    LET T == {e.ts : e \in {x \in edges : LabelOfTs(fq, x.ts) = w}}
    IN  CHOOSE t \in T : \A u \in T : t <= u

\* Faulty variant of GroupMax: the maximum is taken over all edges, not the group.
GroupMax_Global(fq, edges, w) ==
    LET T == {e.ts : e \in edges} IN CHOOSE t \in T : \A u \in T : t >= u

GroupMax(fq, edges, w) ==
    LET T == {e.ts : e \in {x \in edges : LabelOfTs(fq, x.ts) = w}}
    IN  CHOOSE t \in T : \A u \in T : t >= u

\* Faulty variant of WindowIndex: the length is taken of the whole table, not of the group.
WindowIndex_TotalCount(fq, edges) ==
    LET wins == SortLabels({LabelOfTs(fq, e.ts) : e \in edges})
    IN  [cols |-> <<fq, "window_min_ts", "window_end_ts", "edges_cnt">>,
         rows |-> [k \in DOMAIN wins |->
                    [win |-> wins[k],
                     window_min_ts |-> GroupMin(fq, edges, wins[k]),
                     window_end_ts |-> GroupMax(fq, edges, wins[k]),
                     edges_cnt |-> Cardinality(edges)]]]

\* lf.group_by(fq).agg([min, max, len]).sort(fq)
WindowIndex(fq, edges) ==
    LET wins == SortLabels({LabelOfTs(fq, e.ts) : e \in edges})
    IN  [cols |-> <<fq, "window_min_ts", "window_end_ts", "edges_cnt">>,
         rows |-> [k \in DOMAIN wins |->
                    [win |-> wins[k],
                     window_min_ts |-> GroupMin(fq, edges, wins[k]),
                     window_end_ts |-> GroupMax(fq, edges, wins[k]),
                     edges_cnt |-> Cardinality({e \in edges : LabelOfTs(fq, e.ts) = wins[k]})]]]

IndexFile(fq, edges) ==
    LET x == WindowIndex(fq, edges) IN [exists |-> TRUE, cols |-> x.cols, rows |-> x.rows]

\* build_window_index up to the write of month_window_meta.parquet.
BuildWindowIndexMonth ==
    /\ pc = "index_month"
    /\ f_meta' = [f_meta EXCEPT !["month"] = IndexFile("month", f_edges.rows)]
    /\ wlog' = Logged(FileId("window_meta", "month", NoWin), "build_window_index", f_meta["month"].exists)
    /\ pc' = "index_week"
    /\ UNCHANGED <<inputVars, dirs, f_labels, f_map, f_edges, f_targets, f_parts,
                   freq, i, labels, tg_ids, meta, order, nodes_cnt_list, targets_chunks,
                   enrichRuns, exportRuns, crashes, onceEnrich, onceExport>>
    /\ UNCHANGED <<lstmVars, mergeVars>>

\* build_window_index: the write of week_window_meta.parquet.
BuildWindowIndexWeek ==
    /\ pc = "index_week"
    /\ f_meta' = [f_meta EXCEPT !["week"] = IndexFile("week", f_edges.rows)]
    /\ wlog' = Logged(FileId("window_meta", "week", NoWin), "build_window_index", f_meta["week"].exists)
    /\ pc' = "enrich"
    /\ UNCHANGED <<inputVars, dirs, f_labels, f_map, f_edges, f_targets, f_parts,
                   freq, i, labels, tg_ids, meta, order, nodes_cnt_list, targets_chunks,
                   enrichRuns, exportRuns, crashes, onceEnrich, onceExport>>
    /\ UNCHANGED <<lstmVars, mergeVars>>


\* ------------------------------------ 4) nodes_cnt and targets per window
chunk_size == 50

RECURSIVE SortRows(_)
\* DataFrame.sort(freq): the rows in the order of their window label.
SortRows(rows) ==
    IF rows = <<>> THEN <<>>
    ELSE LET k == CHOOSE a \in DOMAIN rows :
                    \A b \in DOMAIN rows : a = b \/ ~LabelLess(rows[b].win, rows[a].win)
             rest == [x \in 1 .. (Len(rows) - 1) |-> IF x < k THEN rows[x] ELSE rows[x + 1]]
         IN  <<rows[k]>> \o SortRows(rest)

\* Faulty variant of WindowEdges: the lower bound of the range is dropped.
WindowEdges_NoLower(edges, ts_min, ts_max) == {e \in edges : e.ts <= ts_max}

\* Faulty variant of WindowEdges: the upper bound of the range is dropped.
WindowEdges_NoUpper(edges, ts_min, ts_max) == {e \in edges : e.ts >= ts_min}

\* scan_parquet(EDGES_ALL_FP).filter((ts >= ts_min) & (ts <= ts_max))
WindowEdges(edges, ts_min, ts_max) == {e \in edges : e.ts >= ts_min /\ e.ts <= ts_max}

\* concat(src_id as node_id, dst_id as node_id).unique()
NodesWin(edges) == {e.src_id : e \in edges} \cup {e.dst_id : e \in edges}

\* Faulty variant of TargetsWin: the join with the labels is dropped.
TargetsWin_NoJoin(nodes_win, ids) == nodes_win

\* nodes_win.join(tg_ids, on="node_id", how="inner")
TargetsWin(nodes_win, ids) == nodes_win \cap ids

\* targets_win.with_columns(lit(win_id)).select([freq, "node_id"])
TargetChunk(win_id, ids) ==
    LET s == SortInts(ids) IN [k \in DOMAIN s |-> [win |-> win_id, node_id |-> s[k]]]

\* Faulty variant of FlushTargets: the file is overwritten with df, the old rows are lost.
FlushTargets_Overwrite(file, chunks) ==
    [exists |-> TRUE, rows |-> Flatten(chunks)]

\* The flush: write df if the targets file is absent, else write old ++ df.
FlushTargets(file, chunks) ==
    [exists |-> TRUE,
     rows |-> IF file.exists THEN file.rows \o Flatten(chunks) ELSE Flatten(chunks)]

\* meta.iter_rows() / zip(...): the rows are visited from the first to the last.
RowOrder(rows) == [k \in DOMAIN rows |-> k]

\* enrich_meta_and_build_targets: read the ids of targets_global.
EnrichStart ==
    /\ pc = "enrich"
    /\ tg_ids' = {r.node_id : r \in f_labels.rows}
    /\ enrichRuns' = enrichRuns + 1
    /\ freq' = "month"
    /\ pc' = "pf_read"
    /\ UNCHANGED <<inputVars, fileVars, i, labels, meta, order, nodes_cnt_list, targets_chunks,
                   wlog, exportRuns, crashes, onceEnrich, onceExport>>
    /\ UNCHANGED <<lstmVars, mergeVars>>

\* process_freq: meta = read_parquet(meta_fp).sort(freq), and the empty lists.
ProcessFreqRead ==
    /\ pc = "pf_read"
    /\ meta' = [cols |-> f_meta[freq].cols, rows |-> SortRows(f_meta[freq].rows)]
    /\ order' = RowOrder(f_meta[freq].rows)
    /\ nodes_cnt_list' = <<>>
    /\ targets_chunks' = <<>>
    /\ i' = 1
    /\ pc' = "pf_loop"
    /\ UNCHANGED <<inputVars, fileVars, freq, labels, tg_ids, bookVars>>
    /\ UNCHANGED <<lstmVars, mergeVars>>

\* The orders in which n rows can be visited.
VisitOrders(n) ==
    {q \in [1 .. n -> 1 .. n] : \A a, b \in 1 .. n : a # b => q[a] # q[b]}

\* process_freq entered with its loop visiting the window rows in any order.
ProcessFreqReadAnyOrder ==
    /\ pc = "pf_read"
    /\ meta' = [cols |-> f_meta[freq].cols, rows |-> SortRows(f_meta[freq].rows)]
    /\ order' \in VisitOrders(Len(f_meta[freq].rows))
    /\ nodes_cnt_list' = <<>>
    /\ targets_chunks' = <<>>
    /\ i' = 1
    /\ pc' = "pf_loop"
    /\ UNCHANGED <<inputVars, fileVars, freq, labels, tg_ids, bookVars>>
    /\ UNCHANGED <<lstmVars, mergeVars>>

\* process_freq: one iteration of the loop over the window rows.
ProcessWindow ==
    /\ pc = "pf_loop"
    /\ i <= Len(meta.rows)
    /\ LET row         == meta.rows[order[i]]
           nodes_win   == NodesWin(WindowEdges(f_edges.rows, row.window_min_ts, row.window_end_ts))
           targets_win == TargetsWin(nodes_win, tg_ids)
           chunks      == IF targets_win # {}
                          THEN Append(targets_chunks, TargetChunk(row.win, targets_win))
                          ELSE targets_chunks
       IN  /\ nodes_cnt_list' = Append(nodes_cnt_list, <<row.win, Cardinality(nodes_win)>>)
           /\ IF Len(chunks) >= chunk_size
              THEN /\ f_targets' = [f_targets EXCEPT ![freq] = FlushTargets(@, chunks)]
                   /\ wlog' = Logged(FileId("targets", freq, NoWin), "enrich_meta_and_build_targets",
                                     f_targets[freq].exists)
                   /\ targets_chunks' = <<>>
              ELSE /\ targets_chunks' = chunks
                   /\ UNCHANGED <<f_targets, wlog>>
    /\ i' = i + 1
    /\ UNCHANGED <<inputVars, dirs, f_labels, f_map, f_edges, f_meta, f_parts,
                   pc, freq, labels, tg_ids, meta, order,
                   enrichRuns, exportRuns, crashes, onceEnrich, onceExport>>
    /\ UNCHANGED <<lstmVars, mergeVars>>

\* process_freq: the final flush of the targets after the loop.
FinalFlush ==
    /\ pc = "pf_loop"
    /\ i > Len(meta.rows)
    /\ IF targets_chunks # <<>>
       THEN /\ f_targets' = [f_targets EXCEPT ![freq] = FlushTargets(@, targets_chunks)]
            /\ wlog' = Logged(FileId("targets", freq, NoWin), "enrich_meta_and_build_targets",
                              f_targets[freq].exists)
       ELSE UNCHANGED <<f_targets, wlog>>
    /\ pc' = "pf_meta"
    /\ UNCHANGED <<inputVars, dirs, f_labels, f_map, f_edges, f_meta, f_parts,
                   freq, i, labels, tg_ids, meta, order, nodes_cnt_list, targets_chunks,
                   enrichRuns, exportRuns, crashes, onceEnrich, onceExport>>
    /\ UNCHANGED <<lstmVars, mergeVars>>

HasCol(cols, c) == \E k \in DOMAIN cols : cols[k] = c

\* Faulty variant of JoinNodesCnt: the counts are attached by position, the k-th
\* collected count to the k-th row of meta, not by window label.
JoinNodesCnt_ByPosition(m, add) ==
    LET col == IF HasCol(m.cols, "nodes_cnt") THEN "nodes_cnt_right" ELSE "nodes_cnt"
    IN  [ok   |-> ~HasCol(m.cols, col),
         cols |-> Append(m.cols, col),
         rows |-> [k \in DOMAIN m.rows |->
                    m.rows[k] @@ (col :> IF k \in DOMAIN add THEN add[k][2] ELSE -1)]]

\* meta.join(add, on=freq, how="left"): every meta row once per matching row of
\* add (once with a null, written -1, when none matches); a column of add whose name is taken
\* gets the suffix "_right", and a name that is taken with the suffix too is an
\* error (polars DuplicateError).
JoinNodesCnt(m, add) ==
    LET col == IF HasCol(m.cols, "nodes_cnt") THEN "nodes_cnt_right" ELSE "nodes_cnt"
        joined(r) ==
            LET hits == SelectSeq(add, LAMBDA a : a[1] = r.win)
            IN  IF hits = <<>> THEN <<r @@ (col :> -1)>>
                ELSE [k \in DOMAIN hits |-> r @@ (col :> hits[k][2])]
    IN  [ok   |-> ~HasCol(m.cols, col),
         cols |-> Append(m.cols, col),
         rows |-> Flatten([k \in DOMAIN m.rows |-> joined(m.rows[k])])]

\* process_freq: nodes_cnt joined back into meta, meta file rewritten; then the
\* next granularity, or the end of enrich_meta_and_build_targets.
WriteBackMeta ==
    /\ pc = "pf_meta"
    /\ LET j == JoinNodesCnt(meta, nodes_cnt_list)
           written == nodes_cnt_list # <<>> /\ j.ok
           metaNow == IF written
                      THEN [f_meta EXCEPT ![freq] = [exists |-> TRUE, cols |-> j.cols, rows |-> j.rows]]
                      ELSE f_meta
       IN  /\ f_meta' = metaNow
           /\ wlog' = IF written
                      THEN Logged(FileId("window_meta", freq, NoWin), "enrich_meta_and_build_targets",
                                  f_meta[freq].exists)
                      ELSE wlog
           /\ IF nodes_cnt_list # <<>> /\ ~j.ok
              THEN pc' = "failed" /\ UNCHANGED <<freq, onceEnrich>>
              ELSE IF freq = "month"
              THEN pc' = "pf_read" /\ freq' = "week" /\ UNCHANGED onceEnrich
              ELSE /\ pc' = "enrich_done"
                   /\ freq' = freq
                   /\ onceEnrich' = IF onceEnrich.set THEN onceEnrich
                                    ELSE [set |-> TRUE, targets |-> f_targets, meta |-> metaNow]
    /\ UNCHANGED <<inputVars, dirs, f_labels, f_map, f_edges, f_targets, f_parts,
                   i, labels, tg_ids, meta, order, nodes_cnt_list, targets_chunks,
                   enrichRuns, exportRuns, crashes, onceExport>>
    /\ UNCHANGED <<lstmVars, mergeVars>>

\* enrich_meta_and_build_targets is invoked again on the unchanged inputs.
RerunEnrich ==
    /\ pc = "enrich_done"
    /\ enrichRuns < MaxStageRuns
    /\ pc' = "enrich"
    /\ UNCHANGED <<inputVars, fileVars, freq, i, labels, tg_ids, meta, order, nodes_cnt_list,
                   targets_chunks, bookVars>>
    /\ UNCHANGED <<lstmVars, mergeVars>>


\* Faulty variant of PartExists: the existence check is dropped.
PartExists_Never(parts, fq, win) == FALSE

\* ------------------------------------------- 5) export of the windows
\* out_fp.exists(): the partition file of the window is there.
PartExists(parts, fq, win) == \E p \in parts : p.freq = fq /\ p.win = win

\* export_windows starts (first granularity: month).
ExportStart ==
    /\ pc = "enrich_done"
    /\ exportRuns' = exportRuns + 1
    /\ freq' = "month"
    /\ pc' = "ex_read"
    /\ UNCHANGED <<inputVars, fileVars, i, labels, tg_ids, meta, order, nodes_cnt_list,
                   targets_chunks, wlog, enrichRuns, crashes, onceEnrich, onceExport>>
    /\ UNCHANGED <<lstmVars, mergeVars>>

\* export_windows: <freq>_meta = read_parquet(...).sort(freq)
ExportRead ==
    /\ pc = "ex_read"
    /\ meta' = [cols |-> f_meta[freq].cols, rows |-> SortRows(f_meta[freq].rows)]
    /\ order' = RowOrder(f_meta[freq].rows)
    /\ i' = 1
    /\ pc' = "ex_loop"
    /\ UNCHANGED <<inputVars, fileVars, freq, labels, tg_ids, nodes_cnt_list,
                   targets_chunks, bookVars>>
    /\ UNCHANGED <<lstmVars, mergeVars>>

\* export_windows with a loop visiting the window rows in any order.
ExportReadAnyOrder ==
    /\ pc = "ex_read"
    /\ meta' = [cols |-> f_meta[freq].cols, rows |-> SortRows(f_meta[freq].rows)]
    /\ order' \in VisitOrders(Len(f_meta[freq].rows))
    /\ i' = 1
    /\ pc' = "ex_loop"
    /\ UNCHANGED <<inputVars, fileVars, freq, labels, tg_ids, nodes_cnt_list,
                   targets_chunks, bookVars>>
    /\ UNCHANGED <<lstmVars, mergeVars>>

\* export_windows: one iteration; an existing partition file is skipped.
ExportWindow ==
    /\ pc = "ex_loop"
    /\ i <= Len(meta.rows)
    /\ LET row == meta.rows[order[i]]
       IN  IF PartExists(f_parts, freq, row.win)
           THEN UNCHANGED <<f_parts, wlog>>
           ELSE /\ f_parts' = {p \in f_parts : ~(p.freq = freq /\ p.win = row.win)} \cup
                              {[freq |-> freq, win |-> row.win,
                                rows |-> WindowEdges(f_edges.rows, row.window_min_ts,
                                                     row.window_end_ts)]}
                /\ wlog' = Logged(FileId("edges_by", freq, row.win), "export_windows",
                                  \E p \in f_parts : p.freq = freq /\ p.win = row.win)
    /\ i' = i + 1
    /\ UNCHANGED <<inputVars, dirs, f_labels, f_map, f_edges, f_meta, f_targets,
                   pc, freq, labels, tg_ids, meta, order, nodes_cnt_list, targets_chunks,
                   enrichRuns, exportRuns, crashes, onceEnrich, onceExport>>
    /\ UNCHANGED <<lstmVars, mergeVars>>

\* export_windows: end of one loop; the week loop follows the month loop.
ExportNext ==
    /\ pc = "ex_loop"
    /\ i > Len(meta.rows)
    /\ IF freq = "month"
       THEN pc' = "ex_read" /\ freq' = "week" /\ UNCHANGED onceExport
       ELSE /\ pc' = "export_done"
            /\ freq' = freq
            /\ onceExport' = IF onceExport.set THEN onceExport
                             ELSE [set |-> TRUE, parts |-> f_parts]
    /\ UNCHANGED <<inputVars, fileVars, i, labels, tg_ids, meta, order, nodes_cnt_list,
                   targets_chunks, wlog, enrichRuns, exportRuns, crashes, onceEnrich>>
    /\ UNCHANGED <<lstmVars, mergeVars>>

\* export_windows is invoked again on the unchanged inputs.
RerunExport ==
    /\ pc = "export_done"
    /\ exportRuns < MaxStageRuns
    /\ enrichRuns = 1
    /\ exportRuns' = exportRuns + 1
    /\ freq' = "month"
    /\ pc' = "ex_read"
    /\ UNCHANGED <<inputVars, fileVars, i, labels, tg_ids, meta, order, nodes_cnt_list,
                   targets_chunks, wlog, enrichRuns, crashes, onceEnrich, onceExport>>
    /\ UNCHANGED <<lstmVars, mergeVars>>

\* ----------------------------------------------------- 6) README, main
write_readme ==
    /\ pc = "export_done"
    /\ pc' = "done"
    /\ wlog' = Logged(FileId("README", "", NoWin), "write_readme", FALSE)
    /\ UNCHANGED <<inputVars, fileVars, freq, i, labels, tg_ids, meta, order, nodes_cnt_list,
                   targets_chunks, enrichRuns, exportRuns, crashes, onceEnrich, onceExport>>
    /\ UNCHANGED <<lstmVars, mergeVars>>

\* Module level, before main: the output directories are created.
Mkdirs ==
    /\ pc = "start"
    /\ dirs' = TRUE
    /\ pc' = "labels"
    /\ UNCHANGED <<inputVars, f_labels, f_map, f_edges, f_meta, f_targets, f_parts,
                   freq, i, labels, tg_ids, meta, order, nodes_cnt_list, targets_chunks, bookVars>>
    /\ UNCHANGED <<lstmVars, mergeVars>>

\* The process is killed between two file writes: its memory is lost.
Crash ==
    /\ pc \notin {"start", "done", "failed", "crashed"}
    /\ crashes < MaxCrashes
    /\ crashes' = crashes + 1
    /\ pc' = "crashed"
    /\ freq' = "month" /\ i' = 1 /\ labels' = {} /\ tg_ids' = {}
    /\ meta' = [cols |-> <<>>, rows |-> <<>>] /\ order' = <<>>
    /\ nodes_cnt_list' = <<>> /\ targets_chunks' = <<>>
    /\ UNCHANGED <<inputVars, fileVars, wlog, enrichRuns, exportRuns, onceEnrich, onceExport>>
    /\ UNCHANGED <<lstmVars, mergeVars>>

\* The pipeline is started again from the beginning on the same inputs.
Restart ==
    /\ pc = "crashed"
    /\ pc' = "start"
    /\ enrichRuns' = 0 /\ exportRuns' = 0
    /\ UNCHANGED <<inputVars, fileVars, freq, i, labels, tg_ids, meta, order, nodes_cnt_list,
                   targets_chunks, wlog, crashes, onceEnrich, onceExport>>
    /\ UNCHANGED <<lstmVars, mergeVars>>

\* ======================================================= feature rollup
\* LSTM/build_unified_dataset.py.  Of the INT_COUNTS / ETH_NUMS columns the model
\* carries one of each aggregation policy: cnt (a SUM-tagged count), burst
\* (burst_max_tx_5m, MAX-tagged) and eth (an ETH_NUMS column, decimal text).
\* A decimal text is the sequence of its characters; amounts are not negative.
DecScale == 9         \* scale of pl.Decimal(38, 9)
MaxFracDigits == 10   \* most fractional digits of a decimal text of the input pool


\* ------------------------------------------------------- decimal text
Digits == <<"0", "1", "2", "3", "4", "5", "6", "7", "8", "9">>
DigitChar(n) == Digits[n + 1]
DigitVal(c) == (CHOOSE k \in DOMAIN Digits : Digits[k] = c) - 1

RECURSIVE Pow10(_)
Pow10(n) == IF n = 0 THEN 1 ELSE 10 * Pow10(n - 1)

RECURSIVE IntVal(_)
IntVal(ds) ==
    IF ds = <<>> THEN 0
    ELSE IntVal(SubSeq(ds, 1, Len(ds) - 1)) * 10 + DigitVal(ds[Len(ds)])

RECURSIVE DigitsOf(_)
DigitsOf(n) == IF n < 10 THEN <<DigitChar(n)>> ELSE DigitsOf(n \div 10) \o <<DigitChar(n % 10)>>

PadLeft(ds, n) == [k \in 1 .. (n - Len(ds)) |-> "0"] \o ds

DotPos(t) == IF \E k \in DOMAIN t : t[k] = "." THEN CHOOSE k \in DOMAIN t : t[k] = "." ELSE Len(t) + 1
IntPart(t) == SubSeq(t, 1, DotPos(t) - 1)
FracPart(t) == SubSeq(t, DotPos(t) + 1, Len(t))

\* A Decimal(38, 9) value: integer part and the 9 fractional digits as a number.
DecZero == [ip |-> 0, fp |-> 0]
DecAdd(a, b) ==
    LET f == a.fp + b.fp
    IN  [ip |-> a.ip + b.ip + f \div Pow10(DecScale), fp |-> f % Pow10(DecScale)]

\* .cast(pl.Decimal(38, 9), strict=False).fill_null(0) on a text: the digits up
\* to the scale are exact; a text with more fractional digits than the scale
\* becomes null (then 0), or is truncated, or rounded half up, depending on the
\* polars build.
StrToDecimal(t, mode) ==
    LET fr == FracPart(t)
        ip == IntVal(IntPart(t))
    IN  IF Len(fr) <= DecScale
        THEN [ip |-> ip, fp |-> IntVal(fr) * Pow10(DecScale - Len(fr))]
        ELSE CASE mode = "null" -> DecZero
               [] mode = "truncate" -> [ip |-> ip, fp |-> IntVal(SubSeq(fr, 1, DecScale))]
               [] mode = "round" ->
                    DecAdd([ip |-> ip, fp |-> IntVal(SubSeq(fr, 1, DecScale))],
                           [ip |-> 0, fp |-> IF DigitVal(fr[DecScale + 1]) >= 5 THEN 1 ELSE 0])

\* Decimal(38, 9).cast(pl.Utf8): integer digits, ".", nine fractional digits.
DecimalToStr(v) == DigitsOf(v.ip) \o <<".">> \o PadLeft(DigitsOf(v.fp), DecScale)

RECURSIVE SeqOfSet(_)
SeqOfSet(S) == IF S = {} THEN <<>> ELSE LET x == CHOOSE y \in S : TRUE IN <<x>> \o SeqOfSet(S \ {x})

RECURSIVE SumInts(_)
SumInts(q) == IF q = <<>> THEN 0 ELSE Head(q) + SumInts(Tail(q))

RECURSIVE MaxInts(_)
MaxInts(q) ==
    IF Len(q) = 1 THEN Head(q)
    ELSE LET m == MaxInts(Tail(q)) IN IF Head(q) >= m THEN Head(q) ELSE m

RECURSIVE SumDecs(_)
SumDecs(q) == IF q = <<>> THEN DecZero ELSE DecAdd(Head(q), SumDecs(Tail(q)))

\* sum_int / sum_int_m: cast(Int64).fill_null(0).sum()
sum_int(rows) == SumInts([k \in DOMAIN rows |-> rows[k].cnt])
\* max_int / max_int_m: cast(Int64).fill_null(0).max()
max_int(rows) == MaxInts([k \in DOMAIN rows |-> rows[k].burst])
\* sum_dec_str / sum_dec_str_m: cast(Decimal(38, 9)).fill_null(0).sum().cast(Utf8)
sum_dec_str(rows, mode) ==
    DecimalToStr(SumDecs([k \in DOMAIN rows |-> StrToDecimal(rows[k].eth, mode)]))

\* ------------------------------------------------------- rollup inputs
T_1_000000001 == <<"1", ".", "0", "0", "0", "0", "0", "0", "0", "0", "1">>
T_2_000000002 == <<"2", ".", "0", "0", "0", "0", "0", "0", "0", "0", "2">>
T_0_0000000005 == <<"0", ".", "0", "0", "0", "0", "0", "0", "0", "0", "0", "5">>
DailyValues == <<[cnt |-> 1, burst |-> 3, eth |-> T_1_000000001],
                 [cnt |-> 2, burst |-> 1, eth |-> T_2_000000002],
                 [cnt |-> 4, burst |-> 2, eth |-> T_0_0000000005]>>
DailyAddrs == {"b", "c", "B"}
\* the feature values of an address on a day of the pool
DailyRow(a, d) ==
    LET v == DailyValues[((d + (IF a = "c" THEN 1 ELSE IF a = "B" THEN 2 ELSE 0)) % 3) + 1]
    IN  [address |-> a, day |-> d, cnt |-> v.cnt, burst |-> v.burst, eth |-> v.eth]
DailyPool == {DailyRow(a, d) : a \in DailyAddrs, d \in Days}
RollupLabelPool == {"B", "c"}

\* ------------------------------------------------- 1) targets + mapping
\* read_parquet(MAP_FP).with_columns(address.lower()).unique(subset=["address"])
AddrMap(rows) ==
    LET low == {[address |-> ToLower(r.address), node_id |-> r.node_id] : r \in rows}
    IN  {R \in SUBSET low :
            /\ \A r \in low : \E k \in R : k.address = r.address
            /\ \A a, b \in R : a.address = b.address => a = b}

\* Module level: the output directories are created.
L_Mkdirs ==
    /\ l_pc = "start"
    /\ l_dirs' = TRUE
    /\ l_pc' = "upstream"
    /\ UNCHANGED <<lstmInputs, f_daily, weekParts, f_weekly, monthParts, f_monthly,
                   addr_map, weeks_list, months_list, week_month_map, li>>
    /\ UNCHANGED <<gnnVars, mergeVars>>

\* The check of LABELS_FP and MAP_FP, then addr_map.
L_ReadMapping ==
    /\ l_pc = "upstream"
    /\ IF ~upLabels \/ ~upMap.exists
       THEN l_pc' = "failed" /\ UNCHANGED addr_map
       ELSE \E R \in AddrMap(upMap.rows) : addr_map' = R /\ l_pc' = "daily"
    /\ UNCHANGED <<lstmInputs, lstmFiles, weeks_list, months_list, week_month_map, li>>
    /\ UNCHANGED <<gnnVars, mergeVars>>

\* -------------------------------------------- 2) daily -> daily_filtered
\* lower-cased address inner-joined with addr_map, week and month of the day.
DailyFiltered(src, amap) ==
    {[node_id |-> m.node_id, address |-> ToLower(r.address), day |-> r.day,
      week |-> StrftimeWeek(r.day), month |-> StrftimeMonth(r.day),
      cnt |-> r.cnt, burst |-> r.burst, eth |-> r.eth] :
        <<r, m>> \in {x \in src \X amap : ToLower(x[1].address) = x[2].address}}

L_DailyFiltered ==
    /\ l_pc = "daily"
    /\ IF dailySrc = {}
       THEN l_pc' = "failed" /\ UNCHANGED f_daily
       ELSE /\ f_daily' = [exists |-> TRUE, rows |-> DailyFiltered(dailySrc, addr_map)]
            /\ l_pc' = "weeks"
    /\ UNCHANGED <<lstmInputs, l_dirs, weekParts, f_weekly, monthParts, f_monthly,
                   addr_map, weeks_list, months_list, week_month_map, li>>
    /\ UNCHANGED <<gnnVars, mergeVars>>

\* ------------------------------------------------ 3) weekly, by window
L_ReadWeeks ==
    /\ l_pc = "weeks"
    /\ IF ~upWeekMeta.exists
       THEN l_pc' = "failed" /\ UNCHANGED <<weeks_list, li>>
       ELSE /\ weeks_list' = [k \in DOMAIN upWeekMeta.rows |-> upWeekMeta.rows[k].win]
            /\ li' = 1
            /\ l_pc' = "week_loop"
    /\ UNCHANGED <<lstmInputs, lstmFiles, addr_map, months_list, week_month_map>>
    /\ UNCHANGED <<gnnVars, mergeVars>>

\* filter(week == w).group_by(["node_id", "week"]).agg(weekly_aggs)
WeeklyPart(daily, w, mode) ==
    {LET g == SeqOfSet({r \in daily : r.week = w /\ r.node_id = n})
     IN  [node_id |-> n, week |-> w, cnt |-> sum_int(g), burst |-> max_int(g),
          eth |-> sum_dec_str(g, mode)] :
        n \in {r.node_id : r \in {x \in daily : x.week = w}}}

\* One iteration of the weekly loop; an existing part file is skipped.
L_WeekPart ==
    /\ l_pc = "week_loop"
    /\ li <= Len(weeks_list)
    /\ LET w == weeks_list[li]
       IN  IF \E p \in weekParts : p.win = w
           THEN UNCHANGED weekParts
           ELSE weekParts' = weekParts \cup
                    {[win |-> w, rows |-> WeeklyPart(f_daily.rows, w, castMode)]}
    /\ li' = li + 1
    /\ UNCHANGED <<lstmInputs, l_dirs, f_daily, f_weekly, monthParts, f_monthly,
                   l_pc, addr_map, weeks_list, months_list, week_month_map>>
    /\ UNCHANGED <<gnnVars, mergeVars>>

\* scan_parquet(parts).sink_parquet(out): the rows of all part files.
ConcatParts(parts) == UNION {p.rows : p \in parts}

L_WeeklyMerge ==
    /\ l_pc = "week_loop"
    /\ li > Len(weeks_list)
    /\ f_weekly' = IF weekParts # {}
                   THEN [exists |-> TRUE, rows |-> ConcatParts(weekParts)]
                   ELSE f_weekly
    /\ l_pc' = "months"
    /\ UNCHANGED <<lstmInputs, l_dirs, f_daily, weekParts, monthParts, f_monthly,
                   addr_map, weeks_list, months_list, week_month_map, li>>
    /\ UNCHANGED <<gnnVars, mergeVars>>

\* ------------------------------------------------ 4) month, from weeks
\* scan_parquet(DAILY_OUT).select(["week", "month"]).unique()
WeekMonthMap(daily) == {[week |-> r.week, month |-> r.month] : r \in daily}

L_ReadMonths ==
    /\ l_pc = "months"
    /\ IF ~upMonthMeta.exists
       THEN l_pc' = "failed" /\ UNCHANGED <<week_month_map, months_list, li>>
       ELSE /\ week_month_map' = WeekMonthMap(f_daily.rows)
            /\ months_list' = [k \in DOMAIN upMonthMeta.rows |-> upMonthMeta.rows[k].win]
            /\ li' = 1
            /\ l_pc' = "month_loop"
    /\ UNCHANGED <<lstmInputs, lstmFiles, addr_map, weeks_list>>
    /\ UNCHANGED <<gnnVars, mergeVars>>

\* week_month_map.filter(month == m).select("week")
w_in_m(wmm, m) == {x.week : x \in {y \in wmm : y.month = m}}

\* filter(week.is_in(w_in_m)).group_by("node_id").agg(monthly_aggs); the eth
\* column of the weekly table is text and is cast to Decimal again.
MonthlyPart(weekly, ws, m, mode) ==
    {LET g == SeqOfSet({r \in weekly : r.week \in ws /\ r.node_id = n})
     IN  [node_id |-> n, month |-> m, cnt |-> sum_int(g), burst |-> max_int(g),
          eth |-> sum_dec_str(g, mode)] :
        n \in {r.node_id : r \in {x \in weekly : x.week \in ws}}}

\* One iteration of the monthly loop: an existing part file is skipped, and so
\* is a month without weeks.
L_MonthPart ==
    /\ l_pc = "month_loop"
    /\ li <= Len(months_list)
    /\ LET m  == months_list[li]
           ws == w_in_m(week_month_map, m)
       IN  IF (\E p \in monthParts : p.win = m) \/ ws = {}
           THEN UNCHANGED monthParts
           ELSE monthParts' = monthParts \cup
                    {[win |-> m, rows |-> MonthlyPart(f_weekly.rows, ws, m, castMode)]}
    /\ li' = li + 1
    /\ UNCHANGED <<lstmInputs, l_dirs, f_daily, weekParts, f_weekly, f_monthly,
                   l_pc, addr_map, weeks_list, months_list, week_month_map>>
    /\ UNCHANGED <<gnnVars, mergeVars>>

L_MonthlyMerge ==
    /\ l_pc = "month_loop"
    /\ li > Len(months_list)
    /\ f_monthly' = IF monthParts # {}
                    THEN [exists |-> TRUE, rows |-> ConcatParts(monthParts)]
                    ELSE f_monthly
    /\ l_pc' = "readme"
    /\ UNCHANGED <<lstmInputs, l_dirs, f_daily, weekParts, f_weekly, monthParts,
                   addr_map, weeks_list, months_list, week_month_map, li>>
    /\ UNCHANGED <<gnnVars, mergeVars>>

\* 5) README.md
L_Readme ==
    /\ l_pc = "readme"
    /\ l_pc' = "done"
    /\ UNCHANGED <<lstmInputs, lstmFiles, addr_map, weeks_list, months_list,
                   week_month_map, li>>
    /\ UNCHANGED <<gnnVars, mergeVars>>

\* ===================================================== merge_parquet_gz
\* GNN/merge_parquet_gz.py.  An input file is [kind, schema, groups]: kind is
\* what its bytes are, groups the row counts of its row groups.  A file with
\* the parquet signatures, and the payload of a gzip that unpacks, is a valid
\* parquet file.  An output part is modelled by the number of rows written.
MaxFiles == 3         \* most input files
MaxGroupRows == 5     \* most rows of one row group of the input pool
MaxRowsSetting == 3   \* largest value of the MAX_ROWS_PER_FILE setting

UNIFY_SCHEMAS == FALSE

GoodFile(kind, sch, groups) == [kind |-> kind, schema |-> sch, groups |-> groups]
BadFile(kind) == [kind |-> kind, schema |-> "", groups |-> <<>>]
FilePool ==
    {GoodFile("parquet", "s1", <<1>>),
     GoodFile("parquet", "s1", <<2, MaxGroupRows>>),
     GoodFile("gzip", "s1", <<MaxGroupRows - 2>>),
     GoodFile("parquet", "s2", <<1>>),
     BadFile("empty"),           \* st_size == 0
     BadFile("unknown"),         \* neither signature
     BadFile("gzip_unreadable"), \* gzip signature, the unpacking command fails
     BadFile("gzip_to_nothing")} \* gzip signature, unpacks to zero bytes

\* head(path, 2) == GZIP_MAGIC
is_gzip_file(f) == f.kind \in {"gzip", "gzip_unreadable", "gzip_to_nothing"}
\* head(path, 4) == PARQUET_MAGIC and tail(path, 4) == PARQUET_MAGIC
is_parquet_file(f) == f.kind = "parquet"

\* get_parquet_handle: the handle (is_temp: an unpacked temporary file), or the
\* exception it raises.
get_parquet_handle(f) ==
    IF f.kind = "empty" THEN [ok |-> FALSE, is_temp |-> FALSE, error |-> "RuntimeError"]
    ELSE IF is_gzip_file(f)
    THEN IF f.kind = "gzip_unreadable"
         THEN [ok |-> FALSE, is_temp |-> FALSE, error |-> "CalledProcessError"]
         ELSE IF f.kind = "gzip_to_nothing"
         THEN [ok |-> FALSE, is_temp |-> FALSE, error |-> "RuntimeError"]
         ELSE [ok |-> TRUE, is_temp |-> TRUE, error |-> ""]
    ELSE IF is_parquet_file(f) THEN [ok |-> TRUE, is_temp |-> FALSE, error |-> ""]
    ELSE [ok |-> FALSE, is_temp |-> FALSE, error |-> "RuntimeError"]

\* writer.write_table(t) on the open part idx: t rows more in that file.
write_table(parts, k, n) == [parts EXCEPT ![k + 1] = @ + n]

\* open_new_writer(idx, schema): the part file idx is created, empty.
open_new_writer(parts) == Append(parts, 0)

\* main: files = sorted(glob); exit(1) without files; the schema of files[0],
\* read outside the loop's try/except; the first writer.
M_Start ==
    /\ m_pc = "start"
    /\ IF files = <<>>
       THEN /\ m_pc' = "exited" /\ m_error' = "SystemExit"
            /\ UNCHANGED <<out_parts, schema, fpos, idx, rows_in_file, total_rows>>
       ELSE LET h == get_parquet_handle(files[1])
            IN  IF ~h.ok
                THEN /\ m_pc' = "raised" /\ m_error' = h.error
                     /\ UNCHANGED <<out_parts, schema, fpos, idx, rows_in_file, total_rows>>
                ELSE /\ schema' = files[1].schema
                     /\ idx' = 0
                     /\ out_parts' = open_new_writer(<<>>)
                     /\ rows_in_file' = 0
                     /\ total_rows' = 0
                     /\ fpos' = 1
                     /\ m_pc' = "files"
                     /\ UNCHANGED m_error
    /\ UNCHANGED <<mergeInputs, rg, skipped>>
    /\ UNCHANGED <<gnnVars, lstmVars>>

\* for p in files: the handle of p (a failure is a warning and the next file),
\* then the comparison of its schema (a mismatch raises out of main).
M_OpenFile ==
    /\ m_pc = "files"
    /\ fpos <= Len(files)
    /\ LET h == get_parquet_handle(files[fpos])
       IN  IF ~h.ok
           THEN /\ skipped' = skipped \cup {fpos}
                /\ fpos' = fpos + 1
                /\ UNCHANGED <<m_pc, m_error, rg>>
           ELSE IF ~UNIFY_SCHEMAS /\ files[fpos].schema # schema
           THEN /\ m_pc' = "raised" /\ m_error' = "SchemaMismatch"
                /\ UNCHANGED <<skipped, fpos, rg>>
           ELSE /\ rg' = 1
                /\ m_pc' = "groups"
                /\ UNCHANGED <<skipped, fpos, m_error>>
    /\ UNCHANGED <<mergeInputs, out_parts, schema, idx, rows_in_file, total_rows>>
    /\ UNCHANGED <<gnnVars, lstmVars>>

\* for rg in range(pf.num_row_groups): one row group of n rows is written,
\* split over two parts when it does not fit the open one.  Table.slice
\* raises on a negative offset.
M_RowGroup ==
    /\ m_pc = "groups"
    /\ rg <= Len(files[fpos].groups)
    /\ LET n    == files[fpos].groups[rg]
           need == MAX_ROWS_PER_FILE - rows_in_file
       IN  IF MAX_ROWS_PER_FILE # 0 /\ rows_in_file + n > MAX_ROWS_PER_FILE
           THEN LET head  == IF need > 0 THEN write_table(out_parts, idx, need) ELSE out_parts
                    total == IF need > 0 THEN total_rows + need ELSE total_rows
                    rest  == n - need
                IN  /\ idx' = idx + 1
                    /\ IF need < 0
                       THEN /\ out_parts' = open_new_writer(head)
                            /\ rows_in_file' = 0
                            /\ total_rows' = total
                            /\ m_pc' = "raised" /\ m_error' = "IndexError"
                            /\ UNCHANGED rg
                       ELSE /\ out_parts' = IF rest > 0
                                            THEN write_table(open_new_writer(head), idx + 1, rest)
                                            ELSE open_new_writer(head)
                            /\ rows_in_file' = IF rest > 0 THEN rest ELSE 0
                            /\ total_rows' = IF rest > 0 THEN total + rest ELSE total
                            /\ rg' = rg + 1
                            /\ UNCHANGED <<m_pc, m_error>>
           ELSE /\ out_parts' = write_table(out_parts, idx, n)
                /\ rows_in_file' = rows_in_file + n
                /\ total_rows' = total_rows + n
                /\ rg' = rg + 1
                /\ UNCHANGED <<idx, m_pc, m_error>>
    /\ UNCHANGED <<mergeInputs, schema, fpos, skipped>>
    /\ UNCHANGED <<gnnVars, lstmVars>>

\* The row groups of p are done: the next file.
M_FileDone ==
    /\ m_pc = "groups"
    /\ rg > Len(files[fpos].groups)
    /\ fpos' = fpos + 1
    /\ m_pc' = "files"
    /\ UNCHANGED <<mergeInputs, out_parts, m_error, schema, rg, idx, rows_in_file,
                   total_rows, skipped>>
    /\ UNCHANGED <<gnnVars, lstmVars>>

\* After the last file: writer.close() and the summary line.
M_Finish ==
    /\ m_pc = "files"
    /\ fpos > Len(files)
    /\ m_pc' = "done"
    /\ UNCHANGED <<mergeInputs, out_parts, m_error, schema, fpos, rg, idx, rows_in_file,
                   total_rows, skipped>>
    /\ UNCHANGED <<gnnVars, lstmVars>>

RECURSIVE FileLists(_)
\* the lists of at most n files of the pool
FileLists(n) ==
    IF n = 0 THEN {<<>>}
    ELSE LET shorter == FileLists(n - 1)
         IN  shorter \cup {Append(q, f) : q \in shorter, f \in FilePool}

MergeProcInit ==
    /\ out_parts = <<>>
    /\ m_error = "" /\ schema = "" /\ fpos = 1 /\ rg = 1
    /\ idx = 0 /\ rows_in_file = 0 /\ total_rows = 0 /\ skipped = {}

\* merge_parquet_gz not running.
MergeIdle ==
    /\ files = <<>> /\ MAX_ROWS_PER_FILE = 0
    /\ m_pc = "idle"
    /\ MergeProcInit

MergeInit ==
    /\ files \in FileLists(MaxFiles)
    /\ MAX_ROWS_PER_FILE \in {0} \cup (2 .. MaxRowsSetting)
    /\ m_pc = "start"
    /\ MergeProcInit

\* The rollup not running: the state of its variables in the edge-pipeline runs.
LstmIdle ==
    /\ upLabels = FALSE /\ upMap = NoFile /\ upWeekMeta = NoMeta /\ upMonthMeta = NoMeta
    /\ dailySrc = {} /\ castMode = "null"
    /\ l_dirs = FALSE /\ f_daily = NoFile /\ weekParts = {} /\ f_weekly = NoFile
    /\ monthParts = {} /\ f_monthly = NoFile
    /\ l_pc = "idle" /\ addr_map = {} /\ weeks_list = <<>> /\ months_list = <<>>
    /\ week_month_map = {} /\ li = 1

\* The rollup starts on the outputs of an edge pipeline run (labels L, edges at
\* the timestamps T) of which at most one may be missing, and on daily rows.
RollupInputs ==
    /\ \E L \in (SUBSET RollupLabelPool) \ {{}} :
       \E T \in {S \in SUBSET TsPool : Cardinality(S) >= NumDays - 1} :
       \E missing \in {"none", "labels", "map", "week_meta", "month_meta"} :
         LET E == {EdgeOf([from_address |-> "A", to_address |-> "B", ts |-> t]) : t \in T}
         IN  /\ upLabels = (missing # "labels")
             /\ upMap = IF missing = "map" THEN NoFile
                        ELSE [exists |-> TRUE, rows |-> LabelRows(L)]
             /\ upWeekMeta = IF missing = "week_meta" THEN NoMeta ELSE IndexFile("week", E)
             /\ upMonthMeta = IF missing = "month_meta" THEN NoMeta ELSE IndexFile("month", E)
    /\ dailySrc \in {S \in SUBSET DailyPool : Cardinality(S) <= MaxDailyRows}
    /\ castMode \in {"null", "truncate", "round"}

RollupInit ==
    /\ RollupInputs
    /\ l_dirs = FALSE /\ f_daily = NoFile /\ weekParts = {} /\ f_weekly = NoFile
    /\ monthParts = {} /\ f_monthly = NoFile
    /\ l_pc = "start" /\ addr_map = {} /\ weeks_list = <<>> /\ months_list = <<>>
    /\ week_month_map = {} /\ li = 1

vars == <<gnnVars, lstmVars, mergeVars>>

\* Before the first run: no output, the process at its start.
GnnFresh ==
    /\ dirs = FALSE
    /\ f_labels = NoFile /\ f_map = NoFile /\ f_edges = NoFile
    /\ f_meta = [fq \in {"month", "week"} |-> NoMeta]
    /\ f_targets = [fq \in {"month", "week"} |-> NoSeqFile]
    /\ f_parts = {}
    /\ pc = "start" /\ freq = "month" /\ i = 1 /\ labels = {} /\ tg_ids = {}
    /\ meta = [cols |-> <<>>, rows |-> <<>>] /\ order = <<>>
    /\ nodes_cnt_list = <<>> /\ targets_chunks = <<>>
    /\ wlog = {} /\ enrichRuns = 0 /\ exportRuns = 0 /\ crashes = 0
    /\ onceEnrich = [set |-> FALSE, targets |-> [fq \in {"month", "week"} |-> NoSeqFile],
                     meta |-> [fq \in {"month", "week"} |-> NoMeta]]
    /\ onceExport = [set |-> FALSE, parts |-> {}]

GnnInit ==
    /\ labelsCsv \in {[exists |-> FALSE, rows |-> {}]} \cup
                      {[exists |-> TRUE, rows |-> S] : S \in SUBSET LabelPool}
    /\ rawTx \in {S \in SUBSET RawPool : Cardinality(S) <= MaxEdges}
    /\ GnnFresh

GnnNext ==
    \/ Mkdirs
    \/ BuildLabelsWriteTargets
    \/ BuildLabelsWriteMap
    \/ build_edges_all
    \/ BuildWindowIndexMonth
    \/ BuildWindowIndexWeek
    \/ EnrichStart
    \/ ProcessFreqRead
    \/ ProcessWindow
    \/ FinalFlush
    \/ WriteBackMeta
    \/ RerunEnrich
    \/ ExportStart
    \/ ExportRead
    \/ ExportWindow
    \/ ExportNext
    \/ RerunExport
    \/ write_readme

\* The edge pipeline, its stages possibly invoked again in succession.
Init == GnnInit /\ LstmIdle /\ MergeIdle
Next == GnnNext
Spec == Init /\ [][Next]_vars

\* The edge pipeline as main runs it, killed and started again at most
\* MaxCrashes times, on inputs that let the run proceed.
CrashInit == GnnInit /\ LstmIdle /\ MergeIdle /\ labelsCsv.exists /\ rawTx # {}
CrashNext ==
    \/ Mkdirs
    \/ BuildLabelsWriteTargets
    \/ BuildLabelsWriteMap
    \/ build_edges_all
    \/ BuildWindowIndexMonth
    \/ BuildWindowIndexWeek
    \/ EnrichStart
    \/ ProcessFreqRead
    \/ ProcessWindow
    \/ FinalFlush
    \/ WriteBackMeta
    \/ ExportStart
    \/ ExportRead
    \/ ExportWindow
    \/ ExportNext
    \/ write_readme
    \/ Crash
    \/ Restart
SpecCrash == CrashInit /\ [][CrashNext]_vars

\* The feature rollup, run once on the outputs of the edge pipeline.
GnnIdle ==
    /\ labelsCsv = NoFile /\ rawTx = {}
    /\ dirs = FALSE
    /\ f_labels = NoFile /\ f_map = NoFile /\ f_edges = NoFile
    /\ f_meta = [fq \in {"month", "week"} |-> NoMeta]
    /\ f_targets = [fq \in {"month", "week"} |-> NoSeqFile]
    /\ f_parts = {}
    /\ pc = "idle" /\ freq = "month" /\ i = 1 /\ labels = {} /\ tg_ids = {}
    /\ meta = [cols |-> <<>>, rows |-> <<>>] /\ order = <<>>
    /\ nodes_cnt_list = <<>> /\ targets_chunks = <<>>
    /\ wlog = {} /\ enrichRuns = 0 /\ exportRuns = 0 /\ crashes = 0
    /\ onceEnrich = [set |-> FALSE, targets |-> [fq \in {"month", "week"} |-> NoSeqFile],
                     meta |-> [fq \in {"month", "week"} |-> NoMeta]]
    /\ onceExport = [set |-> FALSE, parts |-> {}]
RollupNext ==
    \/ L_Mkdirs
    \/ L_ReadMapping
    \/ L_DailyFiltered
    \/ L_ReadWeeks
    \/ L_WeekPart
    \/ L_WeeklyMerge
    \/ L_ReadMonths
    \/ L_MonthPart
    \/ L_MonthlyMerge
    \/ L_Readme
RollupStart == GnnIdle /\ RollupInit /\ MergeIdle
SpecRollup == RollupStart /\ [][RollupNext]_vars

\* The rollup on inputs whose decimal texts fit the scale of Decimal(38, 9) and
\* whose window index names every week and month of the pooled days.
RollupExactStart ==
    /\ RollupStart
    /\ \A r \in dailySrc : Len(FracPart(r.eth)) <= DecScale
    /\ upWeekMeta.exists =>
          \A d \in Days : \E k \in DOMAIN upWeekMeta.rows : upWeekMeta.rows[k].win = StrftimeWeek(d)
    /\ upMonthMeta.exists =>
          \A d \in Days : \E k \in DOMAIN upMonthMeta.rows : upMonthMeta.rows[k].win = StrftimeMonth(d)
SpecRollupExact == RollupExactStart /\ [][RollupNext]_vars

\* One run of main whose two loops visit the window rows in any order.
AnyOrderNext ==
    \/ Mkdirs
    \/ BuildLabelsWriteTargets
    \/ BuildLabelsWriteMap
    \/ build_edges_all
    \/ BuildWindowIndexMonth
    \/ BuildWindowIndexWeek
    \/ EnrichStart
    \/ ProcessFreqReadAnyOrder
    \/ ProcessWindow
    \/ FinalFlush
    \/ WriteBackMeta
    \/ ExportStart
    \/ ExportReadAnyOrder
    \/ ExportWindow
    \/ ExportNext
    \/ write_readme
SpecAnyOrder == CrashInit /\ [][AnyOrderNext]_vars

\* One run of main over more windows than a chunk of targets holds: one edge
\* every seventh day, A->B or (every tenth) b->c.
LongWindows == 51     \* most week windows of the long run
LongRaw(n) ==
    {[from_address |-> IF k % 10 = 3 THEN "b" ELSE "A",
      to_address |-> IF k % 10 = 3 THEN "c" ELSE "B",
      ts |-> (FirstDay + 7 * k) * 86400] : k \in 0 .. (n - 1)}
LongInit ==
    /\ labelsCsv \in {[exists |-> TRUE, rows |-> S] : S \in {{"B"}, {"c"}}}
    /\ \E n \in (LongWindows - 1) .. LongWindows : rawTx = LongRaw(n)
    /\ GnnFresh
    /\ LstmIdle /\ MergeIdle
LongNext ==
    \/ Mkdirs
    \/ BuildLabelsWriteTargets
    \/ BuildLabelsWriteMap
    \/ build_edges_all
    \/ BuildWindowIndexMonth
    \/ BuildWindowIndexWeek
    \/ EnrichStart
    \/ ProcessFreqRead
    \/ ProcessWindow
    \/ FinalFlush
    \/ WriteBackMeta
    \/ ExportStart
    \/ ExportRead
    \/ ExportWindow
    \/ ExportNext
    \/ write_readme
SpecLong == LongInit /\ [][LongNext]_vars

\* merge_parquet_gz.main, run once on a list of input files.
MergeStart == GnnIdle /\ LstmIdle /\ MergeInit
MergeNext ==
    \/ M_Start
    \/ M_OpenFile
    \/ M_RowGroup
    \/ M_FileDone
    \/ M_Finish
SpecMerge == MergeStart /\ [][MergeNext]_vars


\* ================================================================ claims
FreqSet == {"month", "week"}
InputEdges == {EdgeOf(r) : r \in rawTx}
InputLabelIds == {NodeId(a) : a \in labelsCsv.rows}
AllIds == InputLabelIds \cup NodesWin(InputEdges)
InputWindows(fq) == {LabelOfTs(fq, e.ts) : e \in InputEdges}
\* n is an endpoint of an input edge whose timestamp carries the window label w
EndpointIn(fq, w, n) ==
    \E e \in InputEdges : LabelOfTs(fq, e.ts) = w /\ n \in {e.src_id, e.dst_id}

\* The WindowTarget table of fq holds exactly one row per (window, labeled
\* endpoint of the window) and nothing else.
TargetsAsCleanRun(fq) ==
    /\ \A r \in Range(f_targets[fq].rows) : r.win \in InputWindows(fq) /\ r.node_id \in AllIds
    /\ \A w \in InputWindows(fq) : \A n \in AllIds :
          Count(f_targets[fq].rows, [win |-> w, node_id |-> n]) =
              IF n \in InputLabelIds /\ EndpointIn(fq, w, n) THEN 1 ELSE 0

\* The partition files of fq are those of a clean export: one per window, holding
\* the edges that carry the window's label.
PartsAsCleanRun(fq) ==
    {[win |-> p.win, rows |-> p.rows] : p \in {q \in f_parts : q.freq = fq}} =
    {[win |-> w, rows |-> {e \in InputEdges : LabelOfTs(fq, e.ts) = w}] : w \in InputWindows(fq)}

\* The window index of fq is the one a clean run leaves: the window rows with
\* their bounds and edge count and the one added column nodes_cnt.
MetaAsCleanRun(fq) ==
    /\ f_meta[fq].cols = <<fq, "window_min_ts", "window_end_ts", "edges_cnt", "nodes_cnt">>
    /\ Range(f_meta[fq].rows) =
         {[win |-> w,
           window_min_ts |-> GroupMin(fq, InputEdges, w),
           window_end_ts |-> GroupMax(fq, InputEdges, w),
           edges_cnt |-> Cardinality({e \in InputEdges : LabelOfTs(fq, e.ts) = w}),
           nodes_cnt |-> Cardinality({n \in AllIds : EndpointIn(fq, w, n)})] :
          w \in InputWindows(fq)}
    /\ Len(f_meta[fq].rows) = Cardinality(InputWindows(fq))

\* C1: running enrich_meta_and_build_targets twice in succession on unchanged
\* inputs leaves the WindowTarget tables and the window-index tables with the
\* same columns and the same multiset of rows as running it once.
C1_EnrichTwiceAsOnce ==
    (pc = "enrich_done" /\ enrichRuns = 2) =>
        \A fq \in FreqSet :
            /\ SameBag(f_targets[fq].rows, onceEnrich.targets[fq].rows)
            /\ f_meta[fq].cols = onceEnrich.meta[fq].cols
            /\ SameBag(f_meta[fq].rows, onceEnrich.meta[fq].rows)

\* C2: export_windows never writes a partition file that already exists (an
\* existing file is skipped), and after a second export on unchanged inputs the
\* partition files and their content are those left by the first export.
C2_ExportSkipsExisting ==
    /\ \A r \in wlog : r.stage = "export_windows" => ~r.existed
    /\ (exportRuns >= 2 /\ pc \in {"ex_read", "ex_loop", "export_done", "done"})
          => f_parts = onceExport.parts

\* C2 witness: a second export has finished over partition files of the first.
C2_Witness ==
    pc = "export_done" /\ exportRuns = 2 /\ Cardinality(f_parts) >= 3

\* C3: a pipeline run killed between two file writes and run again from the start
\* on unchanged inputs ends with every output table holding the content of one
\* uninterrupted clean run (as multisets of rows).
C3_ResumeAsCleanRun ==
    pc = "done" =>
        \A fq \in FreqSet :
            TargetsAsCleanRun(fq) /\ PartsAsCleanRun(fq) /\ MetaAsCleanRun(fq)

\* C4: for each granularity the ranges [window_min_ts, window_end_ts] of the window
\* rows are pairwise disjoint and every ts of the canonical edge table lies in
\* exactly one of them.
C4_WindowsPartitionTimestamps ==
    \A fq \in FreqSet :
        f_meta[fq].exists =>
            LET rows == f_meta[fq].rows
            IN  /\ \A a, b \in DOMAIN rows :
                      a # b => \/ rows[a].window_end_ts < rows[b].window_min_ts
                               \/ rows[b].window_end_ts < rows[a].window_min_ts
                /\ \A e \in f_edges.rows :
                      Cardinality({k \in DOMAIN rows :
                          rows[k].window_min_ts <= e.ts /\ e.ts <= rows[k].window_end_ts}) = 1

\* C4 witness: both indexes are written and have two windows each.
C4_Witness ==
    /\ pc = "enrich"
    /\ Len(f_meta["month"].rows) = 2
    /\ Len(f_meta["week"].rows) = 2

\* C5: every row (window, node_id) stored in a WindowTarget table has node_id in
\* the Label table and node_id is an endpoint of a canonical edge whose ts lies
\* within that window's [window_min_ts, window_end_ts].
C5_TargetsAreLabeledParticipants ==
    \A fq \in FreqSet : \A r \in Range(f_targets[fq].rows) :
        /\ r.node_id \in {l.node_id : l \in f_labels.rows}
        /\ \E m \in Range(f_meta[fq].rows) :
              /\ m.win = r.win
              /\ \E e \in f_edges.rows :
                    /\ m.window_min_ts <= e.ts /\ e.ts <= m.window_end_ts
                    /\ r.node_id \in {e.src_id, e.dst_id}

\* C5 witness: targets were flushed for a window that also has an unlabeled
\* participant.
C5_Witness ==
    /\ pc = "pf_meta"
    /\ \E r \in Range(f_targets[freq].rows) : \E m \in Range(meta.rows) :
          /\ m.win = r.win
          /\ \E e \in WindowEdges(f_edges.rows, m.window_min_ts, m.window_end_ts) :
                {e.src_id, e.dst_id} \ tg_ids # {}

\* C6: after one clean run of the enrichment from no targets file, the WindowTarget
\* table of a granularity holds, for every window, exactly one row per labeled
\* node that is an endpoint of an edge of that window, and no other row; a window
\* without labeled endpoint contributes no row and no error.
C6_CleanRunTargets ==
    (pc = "enrich_done" /\ enrichRuns = 1) =>
        \A fq \in FreqSet : TargetsAsCleanRun(fq)

\* C6 witness: edges A->B and b->c in one ISO week, only B labeled: the week has
\* the one target row of assign("b"); the month of the second edge has none.
C6_Witness ==
    /\ pc = "enrich_done" /\ enrichRuns = 1
    /\ labelsCsv.rows = {"B"}
    /\ rawTx = {[from_address |-> "A", to_address |-> "B", ts |-> FirstDay * 86400 + 86399],
                [from_address |-> "b", to_address |-> "c", ts |-> (FirstDay + 1) * 86400]}
    /\ f_targets["week"].rows = <<[win |-> <<1970, 5>>, node_id |-> Hash64("b")]>>


\* ------------------------------------------------- rollup: reference values
\* A decimal amount with all its digits: integer part and MaxFracDigits
\* fractional digits.
ExactOf(t) ==
    LET fr == FracPart(t)
    IN  [ip |-> IntVal(IntPart(t)),
         fd |-> [k \in 1 .. MaxFracDigits |-> IF k <= Len(fr) THEN DigitVal(fr[k]) ELSE 0]]

\* Digit-by-digit addition with carry.
ExactAdd(a, b) ==
    LET N == MaxFracDigits
        c[k \in 1 .. (N + 1)] == IF k = N + 1 THEN 0 ELSE (a.fd[k] + b.fd[k] + c[k + 1]) \div 10
    IN  [ip |-> a.ip + b.ip + c[1],
         fd |-> [k \in 1 .. N |-> (a.fd[k] + b.fd[k] + c[k + 1]) % 10]]

RECURSIVE ExactSum(_)
ExactSum(q) ==
    IF q = <<>> THEN [ip |-> 0, fd |-> [k \in 1 .. MaxFracDigits |-> 0]]
    ELSE ExactAdd(ExactOf(Head(q)), ExactSum(Tail(q)))

EthOf(rows) == LET q == SeqOfSet(rows) IN [k \in DOMAIN q |-> q[k].eth]
CntOf(rows) == LET q == SeqOfSet(rows) IN [k \in DOMAIN q |-> q[k].cnt]
BurstOf(rows) == LET q == SeqOfSet(rows) IN [k \in DOMAIN q |-> q[k].burst]

WeeklyDone == l_pc \in {"months", "month_loop", "readme", "done"}
MonthMapRead == l_pc \in {"month_loop", "readme", "done"}
DailyOfWeek(n, w) == {r \in f_daily.rows : r.node_id = n /\ r.week = w}
DailyOfMonth(n, m) == {r \in f_daily.rows : r.node_id = n /\ r.month = m}
\* the (node_id, week) pairs of daily_filtered whose week is in the window index
WeeklyKeys == {<<r.node_id, r.week>> : r \in {x \in f_daily.rows : x.week \in Range(weeks_list)}}

\* The weekly table has one row per key of WeeklyKeys and no other row.
WeeklyRowsAsKeys ==
    /\ \A r \in f_weekly.rows : <<r.node_id, r.week>> \in WeeklyKeys
    /\ \A key \in WeeklyKeys :
          Cardinality({r \in f_weekly.rows : r.node_id = key[1] /\ r.week = key[2]}) = 1

\* C7: every week of the weekly table is assigned to exactly one month: exactly
\* one month m has the week in its week set w_in_m, also when the days of the
\* week fall in two calendar months.
C7_WeekInOneMonth ==
    MonthMapRead =>
        \A w \in {r.week : r \in f_weekly.rows} :
            Cardinality({m \in {x.month : x \in week_month_map} :
                            w \in w_in_m(week_month_map, m)}) = 1

\* C8: for every labeled node and every month of the window index, the monthly
\* values aggregated from the weekly table equal the aggregates of the node's
\* daily values over the days labeled with that month (SUM columns the sum, the
\* MAX column the maximum).
C8_MonthlyEqualsDirect ==
    l_pc = "done" =>
        \A m \in Range(months_list) :
        \A n \in {r.node_id : r \in f_daily.rows} :
            DailyOfMonth(n, m) # {} =>
                \E r \in f_monthly.rows :
                    /\ r.node_id = n /\ r.month = m
                    /\ r.cnt = SumInts(CntOf(DailyOfMonth(n, m)))
                    /\ r.burst = MaxInts(BurstOf(DailyOfMonth(n, m)))
                    /\ ExactOf(r.eth) = ExactSum(EthOf(DailyOfMonth(n, m)))

\* C9: after the weekly stage the weekly table holds exactly one row per
\* (node_id, week) of daily_filtered for a week of the window index, and in it
\* every SUM column is the sum and the MAX column the maximum of the node's
\* daily values of that week.
C9_WeeklyAggregates ==
    WeeklyDone =>
        /\ WeeklyRowsAsKeys
        /\ \A r \in f_weekly.rows :
              /\ r.cnt = SumInts(CntOf(DailyOfWeek(r.node_id, r.week)))
              /\ r.burst = MaxInts(BurstOf(DailyOfWeek(r.node_id, r.week)))
              /\ ExactOf(r.eth) = ExactSum(EthOf(DailyOfWeek(r.node_id, r.week)))

\* C10: the monetary columns are summed exactly: the weekly sum equals the exact
\* arithmetic sum of the daily decimal texts, and the monthly sum the exact sum
\* of the weekly texts it aggregates, with no digit lost or rounded.
C10_DecimalSumsExact ==
    /\ WeeklyDone =>
          \A r \in f_weekly.rows :
              ExactOf(r.eth) = ExactSum(EthOf(DailyOfWeek(r.node_id, r.week)))
    /\ l_pc = "done" =>
          \A r \in f_monthly.rows :
              ExactOf(r.eth) = ExactSum(EthOf({x \in f_weekly.rows :
                  x.node_id = r.node_id /\ x.week \in w_in_m(week_month_map, r.month)}))


\* ------------------------------------------------- identity across datasets
\* The row r of daily_filtered stems from the daily input row s.
StemsFrom(r, s) ==
    /\ r.address = ToLower(s.address) /\ r.day = s.day
    /\ r.cnt = s.cnt /\ r.burst = s.burst /\ r.eth = s.eth

\* C11: the node_id of an address's rows in daily_filtered is the id the edge
\* pipeline gives to that address as src_id/dst_id and in the Label table, the
\* hash of the lower-cased address; addresses that differ only in letter case
\* get the same id.
C11_IdentityAcrossDatasets ==
    /\ f_daily.exists =>
          \A s \in dailySrc : \A r \in f_daily.rows :
              StemsFrom(r, s) =>
                  LET e == EdgeOf([from_address |-> s.address, to_address |-> s.address, ts |-> 0])
                  IN  /\ r.node_id = Hash64(ToLower(s.address))
                      /\ r.node_id = e.src_id /\ r.node_id = e.dst_id
                      /\ \A l \in LabelRows({s.address}) : l.node_id = r.node_id
                      /\ \A l \in upMap.rows :
                            ToLower(l.address) = ToLower(s.address) => l.node_id = r.node_id
    /\ \A a, b \in DailyAddrs \cup RollupLabelPool \cup LabelPool \cup {"A"} :
          ToLower(a) = ToLower(b) => NodeId(a) = NodeId(b)

\* C11 witness: daily rows of "B" and of "b" are both in daily_filtered, under
\* one node_id, the mapping naming the address as "B".
C11_Witness ==
    /\ f_daily.exists
    /\ \E l \in upMap.rows : l.address = "B"
    /\ \E s1, s2 \in dailySrc : \E r1, r2 \in f_daily.rows :
          /\ s1.address = "B" /\ s2.address = "b"
          /\ StemsFrom(r1, s1) /\ StemsFrom(r2, s2)
          /\ r1 # r2 /\ r1.node_id = r2.node_id


\* ------------------------------------------------------- missing inputs
\* C12: when a required input or upstream artifact is absent (labels CSV, raw
\* transaction files; for the rollup: labels/mapping, daily files, week or month
\* window index) the run aborts, and at the abort no output file or directory
\* of the run has been created or written.
C12_AbortBeforeOutputs ==
    /\ (pc = "failed" /\ (~labelsCsv.exists \/ rawTx = {})) =>
          /\ ~dirs /\ wlog = {}
          /\ ~f_labels.exists /\ ~f_map.exists /\ ~f_edges.exists
          /\ \A fq \in FreqSet : ~f_meta[fq].exists /\ ~f_targets[fq].exists
          /\ f_parts = {}
    /\ l_pc = "failed" =>
          /\ ~l_dirs
          /\ ~f_daily.exists /\ weekParts = {} /\ ~f_weekly.exists
          /\ monthParts = {} /\ ~f_monthly.exists


\* ------------------------------------------------------ single producers
WritesOf(table) == {r \in wlog : r.file[1] = table}
\* the positions of the run at which a stage writes the window index
IndexWriterAt == {"index_month", "index_week", "pf_meta"}

\* C13 as stated: the canonical edge table file is written by exactly one stage
\* (build_edges_all) and each window-index file by exactly one stage
\* (build_window_index); every other stage only reads them.
C13_SingleWriterAsStated ==
    /\ \A r \in WritesOf("edges_all") : r.stage = "build_edges_all"
    /\ \A r \in WritesOf("window_meta") : r.stage = "build_window_index"

\* C13 amended: the canonical edge table file is written by build_edges_all
\* only; a window-index file is written by build_window_index, which creates
\* it, and by enrich_meta_and_build_targets, whose join-back rewrites it; no
\* other stage changes either file.
C13_IndexHasTwoWriters ==
    /\ [](/\ \A r \in WritesOf("edges_all") : r.stage = "build_edges_all"
          /\ \A r \in WritesOf("window_meta") :
                r.stage \in {"build_window_index", "enrich_meta_and_build_targets"})
    /\ [][/\ f_edges' # f_edges => pc = "edges_all"
          /\ f_meta' # f_meta => pc \in IndexWriterAt]_vars

\* C13 witness: a whole run is done in which the enrichment rewrote both
\* window-index files and the export read them.
C13_Witness ==
    /\ pc = "done"
    /\ \A fq \in FreqSet :
          /\ [file |-> FileId("window_meta", fq, NoWin),
              stage |-> "enrich_meta_and_build_targets", existed |-> TRUE] \in wlog
          /\ \E p \in f_parts : p.freq = fq


\* ------------------------------------------------------ merge_parquet_gz
\* an input file that is empty, of unknown format, or a gzip that cannot be read
IsBadInput(f) == f.kind \in {"empty", "unknown", "gzip_unreadable", "gzip_to_nothing"}
RowsOfFile(f) == SumInts(f.groups)
\* rows of the input files that are not bad
RowsOfGoodFiles == SumInts([k \in DOMAIN files |-> IF IsBadInput(files[k]) THEN 0 ELSE RowsOfFile(files[k])])
\* main was ended by the exception of a bad input file
AbortedByBadFile == m_pc = "raised" /\ m_error \in {"RuntimeError", "CalledProcessError"}

\* C14: in merge_parquet_gz.main a file that is empty, of unknown format or an
\* unreadable gzip is skipped with a warning wherever it stands in the sorted
\* list; the run is not ended by it and the other files are merged into the
\* output.
C14_BadFilesSkipped ==
    /\ ~AbortedByBadFile
    /\ m_pc = "done" =>
          /\ \A k \in DOMAIN files : IsBadInput(files[k]) <=> k \in skipped
          /\ SumInts(out_parts) = RowsOfGoodFiles


\* ------------------------------------------------------ export partitions
PartsOf(fq) == {p \in f_parts : p.freq = fq}

\* C15: after export_windows has completed from an empty partition directory,
\* for each granularity the partition file of a window holds exactly the
\* canonical edges whose ts lies in the window's [window_min_ts, window_end_ts],
\* there is one partition file per window, and every canonical edge is in
\* exactly one partition file of the granularity.
C15_PartitionsHoldWindowEdges ==
    pc \in {"export_done", "done"} =>
        \A fq \in FreqSet :
            /\ \A m \in Range(f_meta[fq].rows) :
                  {p.rows : p \in {q \in PartsOf(fq) : q.win = m.win}} =
                      {{e \in f_edges.rows : m.window_min_ts <= e.ts /\ e.ts <= m.window_end_ts}}
            /\ \A p \in PartsOf(fq) : \E m \in Range(f_meta[fq].rows) : m.win = p.win
            /\ \A e \in f_edges.rows :
                  Cardinality({p \in PartsOf(fq) : e \in p.rows}) = 1

\* C15 witness: the export is done, with two partitions per granularity, one
\* edge in each.
C15_Witness ==
    /\ pc = "export_done" /\ exportRuns = 1
    /\ \A fq \in FreqSet :
          /\ Cardinality(PartsOf(fq)) = 2
          /\ \A p \in PartsOf(fq) : Cardinality(p.rows) = 1


\* ---------------------------------------------------------- window counts
\* C16: once build_window_index has written the index of a granularity, every
\* window row has edges_cnt >= 1 and window_min_ts <= window_end_ts, its
\* edges_cnt is the number of canonical edges carrying the window's label, and
\* the edges_cnt values of the granularity add up to the number of canonical
\* edges.
C16_WindowCounts ==
    \A fq \in FreqSet :
        f_meta[fq].exists =>
            LET rows == f_meta[fq].rows
            IN  /\ \A k \in DOMAIN rows :
                      /\ rows[k].edges_cnt >= 1
                      /\ rows[k].window_min_ts <= rows[k].window_end_ts
                      /\ rows[k].edges_cnt =
                            Cardinality({e \in f_edges.rows : LabelOfTs(fq, e.ts) = rows[k].win})
                /\ SumInts([k \in DOMAIN rows |-> rows[k].edges_cnt]) = Cardinality(f_edges.rows)

\* C16 witness: the two edges share a week window with different timestamps
\* and fall into two month windows of one edge each.
C16_Witness ==
    /\ pc = "enrich"
    /\ Len(f_meta["week"].rows) = 1
    /\ f_meta["week"].rows[1].edges_cnt = 2
    /\ f_meta["week"].rows[1].window_min_ts < f_meta["week"].rows[1].window_end_ts
    /\ Len(f_meta["month"].rows) = 2
    /\ \A k \in 1 .. 2 : f_meta["month"].rows[k].edges_cnt = 1


\* ------------------------------------------------------ order of the windows
\* nodes_cnt of every window row of the index of fq is the number of distinct
\* endpoints of the input edges carrying the window's label.
NodesCntAsCleanRun(fq) ==
    \A k \in DOMAIN f_meta[fq].rows :
        LET r == f_meta[fq].rows[k]
        IN  /\ "nodes_cnt" \in DOMAIN r
            /\ r.nodes_cnt = Cardinality({n \in AllIds : EndpointIn(fq, r.win, n)})

\* C17: whatever permutation of the window rows process_freq and export_windows
\* iterate, a run from the same inputs ends with the same WindowTarget table
\* (as a multiset of rows), the same nodes_cnt of every window and the same
\* content of every partition file: each is the value the inputs determine.
C17_OrderIndependent ==
    /\ pc \in {"enrich_done", "export_done", "done"} =>
          \A fq \in FreqSet : TargetsAsCleanRun(fq) /\ NodesCntAsCleanRun(fq)
    /\ pc \in {"export_done", "done"} =>
          \A fq \in FreqSet : PartsAsCleanRun(fq)

\* C17 witness: process_freq has visited two week windows last-first, the
\* windows differ in nodes_cnt and both have target rows.
C17_Witness ==
    /\ pc = "enrich_done"
    /\ order = <<2, 1>>
    /\ Len(f_meta["week"].rows) = 2
    /\ f_meta["week"].rows[1].nodes_cnt # f_meta["week"].rows[2].nodes_cnt
    /\ \A k \in 1 .. 2 :
          \E t \in DOMAIN f_targets["week"].rows :
              f_targets["week"].rows[t].win = f_meta["week"].rows[k].win


\* ---------------------------------------------------------- the join-back
\* The node-count columns among cols: nodes_cnt and what a join names a second one.
NodeCountCols(cols) == {k \in DOMAIN cols : cols[k] \in {"nodes_cnt", "nodes_cnt_right"}}

\* The step of process_freq that rewrites the window index of freq leaves the
\* window rows and their label, bounds and edge count as they were and gives
\* every row one non-null nodes_cnt: the number of distinct endpoints of the
\* edges within the window's bounds.
JoinBackFrame ==
    (pc = "pf_meta" /\ f_meta'[freq] # f_meta[freq]) =>
        LET old == f_meta[freq]
            new == f_meta'[freq]
        IN  /\ Len(new.rows) = Len(old.rows)
            /\ Cardinality(NodeCountCols(new.cols)) = 1
            /\ HasCol(new.cols, "nodes_cnt")
            /\ \A k \in DOMAIN new.rows :
                  /\ k \in DOMAIN old.rows
                  /\ new.rows[k].win = old.rows[k].win
                  /\ new.rows[k].window_min_ts = old.rows[k].window_min_ts
                  /\ new.rows[k].window_end_ts = old.rows[k].window_end_ts
                  /\ new.rows[k].edges_cnt = old.rows[k].edges_cnt
                  /\ new.rows[k].nodes_cnt # -1
                  /\ new.rows[k].nodes_cnt =
                        Cardinality(NodesWin(WindowEdges(f_edges.rows,
                                                         new.rows[k].window_min_ts,
                                                         new.rows[k].window_end_ts)))

\* C18: the join-back at the end of process_freq rewrites the window-index
\* table with the same window rows and unchanged label, window_min_ts,
\* window_end_ts and edges_cnt, and gives every row a single non-null nodes_cnt
\* equal to the number of distinct src/dst ids of the edges in the window's
\* bounds.
C18_JoinBackKeepsRowsAddsNodesCnt == [][JoinBackFrame]_vars

\* The same for the first invocation of the enrichment after the index was built.
C18_FirstJoinBack == [][enrichRuns = 1 => JoinBackFrame]_vars


\* ------------------------------------------------------ the targets buffer
\* The target rows process_freq computes for the index row r.
TargetRowsOf(r) ==
    {[win |-> r.win, node_id |-> n] :
        n \in TargetsWin(NodesWin(WindowEdges(f_edges.rows, r.window_min_ts, r.window_end_ts)),
                         tg_ids)}

\* C19: between two steps of process_freq the buffer targets_chunks holds fewer
\* than chunk_size = 50 chunks, each the non-empty rows of one window (at 50 it
\* is merged into the targets file and emptied within the step); the target
\* rows of every window visited so far are in the targets file or in the
\* buffer, and after the final flush the target rows of all windows are in the
\* targets file.
C19_BufferBoundedNothingLost ==
    /\ Len(targets_chunks) < chunk_size
    /\ \A c \in DOMAIN targets_chunks :
          /\ targets_chunks[c] # <<>>
          /\ \A a, b \in DOMAIN targets_chunks[c] : targets_chunks[c][a].win = targets_chunks[c][b].win
    /\ \A c, d \in DOMAIN targets_chunks :
          c # d => targets_chunks[c][1].win # targets_chunks[d][1].win
    /\ pc = "pf_loop" =>
          \A j \in 1 .. (i - 1) :
              TargetRowsOf(meta.rows[order[j]]) \subseteq
                  Range(f_targets[freq].rows) \cup Range(Flatten(targets_chunks))
    /\ pc = "pf_meta" =>
          \A j \in DOMAIN meta.rows :
              TargetRowsOf(meta.rows[j]) \subseteq Range(f_targets[freq].rows)
    /\ pc \in {"enrich_done", "export_done", "done"} =>
          \A fq \in FreqSet : \A j \in DOMAIN f_meta[fq].rows :
              TargetRowsOf(f_meta[fq].rows[j]) \subseteq Range(f_targets[fq].rows)

\* C19 witness: the week loop flushed 50 chunks into the targets file, went on,
\* and the final flush added the one chunk that was left.
C19_Witness ==
    /\ pc = "pf_meta"
    /\ freq = "week"
    /\ Len(targets_chunks) = 1
    /\ Len(f_targets["week"].rows) = chunk_size + 1


\* ------------------------------------------------------ split by row count
\* the rows main counted are the rows of the input files it did not skip
TotalRowsAsRead == m_pc = "done" => total_rows = RowsOfGoodFiles /\ SumInts(out_parts) = total_rows
\* no row group of an input file is larger than the limit
GroupsFitLimit ==
    \A k \in DOMAIN files : \A g \in DOMAIN files[k].groups : files[k].groups[g] <= MAX_ROWS_PER_FILE

\* C20: with MAX_ROWS_PER_FILE > 0 every output part of merge_parquet_gz.main
\* holds at most MAX_ROWS_PER_FILE rows, whatever the sizes of the input row
\* groups, and total_rows, the rows written over all parts, is the sum of the
\* rows of the input files that were not skipped.
C20_PartsWithinLimit ==
    /\ MAX_ROWS_PER_FILE > 0 =>
          \A k \in DOMAIN out_parts : out_parts[k] <= MAX_ROWS_PER_FILE
    /\ TotalRowsAsRead

\* The same when no input row group is larger than MAX_ROWS_PER_FILE.
C20_PartsWithinLimitSmallGroups ==
    (MAX_ROWS_PER_FILE > 0 /\ GroupsFitLimit) =>
        /\ \A k \in DOMAIN out_parts : out_parts[k] <= MAX_ROWS_PER_FILE
        /\ m_pc # "raised" \/ m_error # "IndexError"

=============================================================================
